---- MODULE Spec2Model ----
(***************************************************************************)
(* A model of src/geometry.hpp: Vector3, Line, Plane and Tri, with the     *)
(* arithmetic of `double` modelled as binary floating point, rounded to    *)
(* nearest (ties to even) after every operation.                           *)
(***************************************************************************)
EXTENDS Integers, Sequences, FiniteSets, TLC

(***************************************************************************)
(* double.  A value is m * 2^e, kept canonical: m is odd, or m = 0 and     *)
(* e = 0, so that two values are equal exactly when their records are.     *)
(* The significand holds Prec bits (53 in the build; scaled down here) and *)
(* the exponent is unbounded: the inputs are small, so no operation of the *)
(* model overflows or underflows in the build either.  The sign of zero    *)
(* and NaN are not modelled (no operation of the model produces NaN).      *)
(***************************************************************************)
Prec == 4

RECURSIVE BitLen(_)
BitLen(n) == IF n = 0 THEN 0 ELSE 1 + BitLen(n \div 2)

Abs(n) == IF n < 0 THEN -n ELSE n

Sgn(n) == IF n < 0 THEN -1 ELSE IF n = 0 THEN 0 ELSE 1

RECURSIVE Canon(_, _)
Canon(m, e) ==
    IF m = 0 THEN [m |-> 0, e |-> 0]
    ELSE IF m % 2 = 0 THEN Canon(m \div 2, e + 1)
    ELSE [m |-> m, e |-> e]

\* The exact value m * 2^e rounded to Prec significant bits, ties to even.
Round(m, e) ==
    LET a == Abs(m)
        L == BitLen(a)
    IN  IF L <= Prec THEN Canon(m, e)
        ELSE LET sh   == L - Prec
                 q    == a \div (2 ^ sh)
                 r    == a % (2 ^ sh)
                 half == 2 ^ (sh - 1)
                 up   == r > half \/ (r = half /\ q % 2 = 1)
             IN  Canon(Sgn(m) * (IF up THEN q + 1 ELSE q), e + sh)

Zero == [m |-> 0, e |-> 0]

FromInt(n) == Canon(n, 0)

\* The position of the leading bit of a nonzero value.
Top(x) == x.e + BitLen(Abs(x.m)) - 1

\* The exact sum, as a pair <<m, e>>.
ExactAdd(x, y) ==
    LET e == IF x.e < y.e THEN x.e ELSE y.e
    IN  <<x.m * (2 ^ (x.e - e)) + y.m * (2 ^ (y.e - e)), e>>

\* x + y.  An operand below a quarter of the other's last place cannot move
\* the rounded sum.
FAdd(x, y) ==
    IF x.m = 0 THEN y
    ELSE IF y.m = 0 THEN x
    ELSE IF Top(y) <= Top(x) - Prec - 2 THEN x
    ELSE IF Top(x) <= Top(y) - Prec - 2 THEN y
    ELSE LET s == ExactAdd(x, y) IN Round(s[1], s[2])

FNeg(x) == [m |-> -x.m, e |-> x.e]

\* x - y on doubles.
FSub(x, y) == FAdd(x, FNeg(y))

\* x * y.
FMul(x, y) == Round(x.m * y.m, x.e + y.e)

\* x / y, y nonzero: the quotient to Prec + 2 bits and a sticky bit, rounded.
FDiv(x, y) ==
    LET k == Prec + 2 + BitLen(Abs(y.m))
        n == Abs(x.m) * (2 ^ k)
        d == Abs(y.m)
        q == n \div d
        s == IF n % d = 0 THEN 0 ELSE 1
    IN  Round(Sgn(x.m) * Sgn(y.m) * (2 * q + s), x.e - y.e - k - 1)

RECURSIVE ISqrtFrom(_, _)
ISqrtFrom(n, s) == IF (s + 1) * (s + 1) > n THEN s ELSE ISqrtFrom(n, s + 1)

RECURSIVE ISqrt(_)
\* The integer square root, by halving.
ISqrt(n) ==
    IF n < 4 THEN ISqrtFrom(n, 0)
    ELSE LET h == 2 * ISqrt(n \div 4)
         IN  IF (h + 1) * (h + 1) <= n THEN h + 1 ELSE h

\* sqrt(x), x >= 0: the root of the significand widened to 2 * (Prec + 2)
\* bits at an even exponent, with a sticky bit, rounded.
FSqrt(x) ==
    IF x.m = 0 THEN Zero
    ELSE LET j  == Prec + 2
             w  == IF (x.e - 2 * j) % 2 = 0 THEN 2 * j ELSE 2 * j + 1
             n  == x.m * (2 ^ w)
             e  == x.e - w
             s  == ISqrt(n)
             st == IF s * s = n THEN 0 ELSE 1
         IN  Round(2 * s + st, (e \div 2) - 1)

\* x < y.
FLt(x, y) ==
    LET e == IF x.e < y.e THEN x.e ELSE y.e
    IN  IF x.m = 0 THEN y.m > 0
        ELSE IF y.m = 0 THEN x.m < 0
        ELSE IF Sgn(x.m) # Sgn(y.m) THEN x.m < y.m
        ELSE IF Top(x) # Top(y) THEN (IF x.m > 0 THEN Top(x) < Top(y) ELSE Top(x) > Top(y))
        ELSE x.m * (2 ^ (x.e - e)) < y.m * (2 ^ (y.e - e))


\* The double nearest to the decimal literal num / den.
Literal(num, den) == FDiv([m |-> num, e |-> 0], [m |-> den, e |-> 0])

(***************************************************************************)
(* Vector3                                                                 *)
(***************************************************************************)
Vector3(x, y, z) == [x |-> x, y |-> y, z |-> z]

\* Vector3(): the zero vector.
Vector3Default == Vector3(Zero, Zero, Zero)

\* operator+(Vector3, Vector3)
VAdd(v1, v2) == Vector3(FAdd(v1.x, v2.x), FAdd(v1.y, v2.y), FAdd(v1.z, v2.z))

\* operator*(double, Vector3)
VScale(scalar, v1) == Vector3(FMul(scalar, v1.x), FMul(scalar, v1.y), FMul(scalar, v1.z))

\* operator-(Vector3, Vector3): v1 + (-1 * v2)
VSub(v1, v2) == VAdd(v1, VScale(FromInt(-1), v2))

\* operator*(Vector3, Vector3): the dot product, summed left to right.
Dot(v1, v2) == FAdd(FAdd(FMul(v1.x, v2.x), FMul(v1.y, v2.y)), FMul(v1.z, v2.z))

\* static double epsilon = 0.005
epsilon == Literal(5, 1000)

\* operator== with the bounds of the box included (<= for <).
VEqInclusive(v1, v2) ==
    LET diff == VSub(v1, v2)
        In(c) == (c = epsilon \/ FLt(c, epsilon)) /\ (c = FNeg(epsilon) \/ FLt(FNeg(epsilon), c))
    IN  In(diff.x) /\ In(diff.y) /\ In(diff.z)

\* operator==(Vector3, Vector3)
VEq(v1, v2) ==
    LET diff == VSub(v1, v2)
        x == FLt(diff.x, epsilon) /\ FLt(FNeg(epsilon), diff.x)
        y == FLt(diff.y, epsilon) /\ FLt(FNeg(epsilon), diff.y)
        z == FLt(diff.z, epsilon) /\ FLt(FNeg(epsilon), diff.z)
    IN  x /\ y /\ z

\* cross with the sign of the last term of z slipped.
CrossSignSlip(v1, v2) ==
    Vector3(FSub(FMul(v1.y, v2.z), FMul(v1.z, v2.y)),
            FSub(FMul(v1.z, v2.x), FMul(v1.x, v2.z)),
            FAdd(FMul(v1.x, v2.y), FMul(v1.y, v2.x)))

\* Vector3::cross
Cross(v1, v2) ==
    Vector3(FSub(FMul(v1.y, v2.z), FMul(v1.z, v2.y)),
            FSub(FMul(v1.z, v2.x), FMul(v1.x, v2.z)),
            FSub(FMul(v1.x, v2.y), FMul(v1.y, v2.x)))

\* Vector3::norm
Norm(v) == FSqrt(FAdd(FAdd(FMul(v.x, v.x), FMul(v.y, v.y)), FMul(v.z, v.z)))

\* 0.0 / 0.0, which no operation of the code produces.
NaN == [m |-> 0, e |-> 1]

\* normalize without the test for a zero norm: 0.0 / 0.0 on every coordinate.
NormalizeUnguarded(v) ==
    LET n == Norm(v)
    IN  IF n = Zero THEN Vector3(NaN, NaN, NaN)
        ELSE Vector3(FDiv(v.x, n), FDiv(v.y, n), FDiv(v.z, n))

\* Vector3::normalize: the receiver's value after the call.
Normalize(v) ==
    LET n == Norm(v)
    IN  IF n = Zero THEN v
        ELSE Vector3(FDiv(v.x, n), FDiv(v.y, n), FDiv(v.z, n))

(***************************************************************************)
(* Line                                                                    *)
(***************************************************************************)
Line(d, p) == [d |-> d, p |-> p]

\* Line::getLine
getLine(p1, p2) == Line(VSub(p2, p1), p1)

(***************************************************************************)
(* Plane                                                                   *)
(***************************************************************************)
Plane(d1, d2, p) == [d1 |-> d1, d2 |-> d2, p |-> p]

\* Plane(): the XY-plane through the origin.
PlaneDefault ==
    Plane(Vector3(FromInt(1), Zero, Zero), Vector3(Zero, FromInt(1), Zero),
          Vector3(Zero, Zero, Zero))

\* getTangentPlane with the sign of a.z slipped.
getTangentPlaneSignSlip(line) ==
    LET a == IF line.d.z = Zero
             THEN Vector3(Zero, Zero, FromInt(1))
             ELSE Vector3(Zero, FromInt(1), FDiv(line.d.y, line.d.z))
        b == Cross(a, line.d)
    IN  Plane(a, b, line.p)

\* getTangentPlane with the arguments of cross swapped.
getTangentPlaneSwapped(line) ==
    LET a == IF line.d.z = Zero
             THEN Vector3(Zero, Zero, FromInt(1))
             ELSE Vector3(Zero, FromInt(1), FDiv(FNeg(line.d.y), line.d.z))
        b == Cross(line.d, a)
    IN  Plane(a, b, line.p)

\* Plane::getTangentPlane
getTangentPlane(line) ==
    LET a == IF line.d.z = Zero
             THEN Vector3(Zero, Zero, FromInt(1))
             ELSE Vector3(Zero, FromInt(1), FDiv(FNeg(line.d.y), line.d.z))
        b == Cross(a, line.d)
    IN  Plane(a, b, line.p)

\* Plane::norm
PlaneNorm(plane) == Cross(plane.d1, plane.d2)

\* The numerator as the distance from line.p to the plane along n.
NumeratorFromPlanePoint(plane, line) ==
    LET n == Cross(plane.d1, plane.d2)
    IN  FSub(Dot(n, plane.p), Dot(n, line.p))

\* The numerator with its last subtraction left out.
NumeratorDropsTerm(plane, line) ==
    LET n == Cross(plane.d1, plane.d2)
    IN  FSub(FSub(Dot(n, line.p), FMul(n.x, line.p.x)), FMul(n.y, line.p.y))

\* The numerator of Plane::lineIntersection, subtracted left to right.
Numerator(plane, line) ==
    LET n == PlaneNorm(plane)
    IN  FSub(FSub(FSub(Dot(n, line.p), FMul(n.x, line.p.x)), FMul(n.y, line.p.y)),
             FMul(n.z, line.p.z))

\* The denominator of Plane::lineIntersection.
Denominator(plane, line) ==
    LET n == PlaneNorm(plane)
    IN  FAdd(FAdd(FMul(n.x, line.d.x), FMul(n.y, line.d.y)), FMul(n.z, line.d.z))

\* lineIntersection returning line.p, not the zero vector, for a zero denominator.
lineIntersectionKeepsPoint(plane, line) ==
    LET numerator   == Numerator(plane, line)
        denominator == Denominator(plane, line)
    IN  IF denominator = Zero THEN line.p
        ELSE LET t == FDiv(numerator, denominator)
             IN  VAdd(line.p, VScale(t, line.d))

\* Plane::lineIntersection
lineIntersection(plane, line) ==
    LET numerator   == Numerator(plane, line)
        denominator == Denominator(plane, line)
    IN  IF denominator = Zero THEN Vector3Default
        ELSE LET t == FDiv(numerator, denominator)
             IN  VAdd(line.p, VScale(t, line.d))

(***************************************************************************)
(* Tri                                                                     *)
(***************************************************************************)
\* Tri(p1, p2, p3): p[0], p[1], p[2] are tri[1], tri[2], tri[3].
Tri(p1, p2, p3) == <<p1, p2, p3>>

\* Tri::norm: the returned vector (normalize acts on the local copy).
TriNorm(tri) ==
    LET d1 == VSub(tri[2], tri[1])
        d2 == VSub(tri[3], tri[1])
    IN  Normalize(Cross(d1, d2))

(***************************************************************************)
(* The state: the objects a caller holds, the last operation called and    *)
(* what it returned.  Arguments are passed by value, so an operation can   *)
(* change an object only by assigning to its own receiver.                 *)
(***************************************************************************)
VARIABLES va, vb, line, plane, tri, last, retV, retD, retB, retP, retL

vars == <<va, vb, line, plane, tri, last, retV, retD, retB, retP, retL>>

objects == <<va, vb, line, plane, tri>>

LineNone == Line(Vector3Default, Vector3Default)

TriNone == Tri(Vector3Default, Vector3Default, Vector3Default)

\* The largest coordinate of the directions a tangent plane is built for.
MaxCoord == 3

IVec(x, y, z) == Vector3(FromInt(x), FromInt(y), FromInt(z))

Cube(S) == {Vector3(x, y, z) : x \in S, y \in S, z \in S}

\* Vectors around the tolerance of operator==.
EqVals == {Zero, FMul(Literal(1, 2), epsilon), FMul(Literal(3, 4), epsilon), epsilon, FromInt(1)}

\* Vectors whose products and sums need rounding.
ArithVals == {FromInt(-3), Zero, FromInt(5), FromInt(7)}

PlaneDirs == {IVec(1, 0, 0), IVec(0, 1, 0), IVec(0, 0, 0), IVec(1, 1, 1),
              IVec(3, -2, 3), IVec(1, 3, 3)}

PlanePts == {IVec(0, 0, 0), IVec(0, 0, 1), IVec(1, 2, 3)}

LineDirs == {IVec(0, 0, -1), IVec(1, 0, 0), IVec(1, 1, 1), IVec(0, 0, 0), IVec(-2, -2, -1)}

LinePts == {IVec(0, 0, 5), IVec(0, 0, 0), IVec(1, 5, 5), IVec(3, 5, 5), IVec(1, 1, 0)}

TanDirs == Cube({FromInt(n) : n \in (1 - MaxCoord)..MaxCoord})

TanPts == {IVec(0, 0, 0), IVec(1, 2, 3)}

TriPts == {IVec(0, 0, 0), IVec(1, 0, 0), IVec(0, 1, 0), IVec(1, 1, 1), IVec(2, 2, 2),
           IVec(3, -2, 3)}

Scalars == {FromInt(-1), FromInt(2), Literal(1, 3)}

NoReturn ==
    /\ last = "init"
    /\ retV = Vector3Default
    /\ retD = Zero
    /\ retB = FALSE
    /\ retP = PlaneDefault
    /\ retL = LineNone

InitVectors ==
    /\ \/ va \in Cube(EqVals) /\ vb \in Cube({Zero, epsilon})
       \/ va \in Cube(ArithVals) /\ vb \in Cube(ArithVals \ {Zero})
    /\ line = LineNone /\ plane = PlaneDefault /\ tri = TriNone

InitPlane ==
    /\ plane \in {Plane(d1, d2, p) : d1 \in PlaneDirs, d2 \in PlaneDirs, p \in PlanePts}
    /\ line \in {Line(d, p) : d \in LineDirs, p \in LinePts}
    /\ va = Vector3Default /\ vb = Vector3Default /\ tri = TriNone

InitTangent ==
    /\ line \in {Line(d, p) : d \in TanDirs, p \in TanPts}
    /\ plane = PlaneDefault
    /\ va = Vector3Default /\ vb = Vector3Default /\ tri = TriNone

InitTri ==
    /\ tri \in {Tri(p1, p2, p3) : p1 \in TriPts, p2 \in TriPts, p3 \in TriPts}
    /\ line = LineNone /\ plane = PlaneDefault
    /\ va = Vector3Default /\ vb = Vector3Default

Init == (InitVectors \/ InitPlane \/ InitTangent \/ InitTri) /\ NoReturn

\* What a call leaves behind: its name and its return value.
Returns(op, v, d, b, p, l) ==
    /\ last' = op
    /\ retV' = v
    /\ retD' = d
    /\ retB' = b
    /\ retP' = p
    /\ retL' = l

ReturnsVector(op, v) == Returns(op, v, Zero, FALSE, PlaneDefault, LineNone)

ReturnsDouble(op, d) == Returns(op, Vector3Default, d, FALSE, PlaneDefault, LineNone)

\* va + vb
AddOp == ReturnsVector("operator+", VAdd(va, vb)) /\ UNCHANGED objects

\* k * va
ScaleOp == \E k \in Scalars : ReturnsVector("scale", VScale(k, va)) /\ UNCHANGED objects

\* va - vb
SubOp == ReturnsVector("operator-", VSub(va, vb)) /\ UNCHANGED objects

\* va * vb
DotOp == ReturnsDouble("dot", Dot(va, vb)) /\ UNCHANGED objects

\* va == vb
EqualsOp ==
    /\ Returns("operator==", Vector3Default, Zero, VEq(va, vb), PlaneDefault, LineNone)
    /\ UNCHANGED objects

\* Vector3::cross(va, vb)
CrossOp == ReturnsVector("cross", Cross(va, vb)) /\ UNCHANGED objects

\* va.norm()
NormOp == ReturnsDouble("norm", Norm(va)) /\ UNCHANGED objects

\* va.normalize() (void)
NormalizeOp ==
    /\ va' = Normalize(va)
    /\ ReturnsVector("normalize", Vector3Default)
    /\ UNCHANGED <<vb, line, plane, tri>>

\* Line::getLine(va, vb)
GetLineOp ==
    /\ Returns("getLine", Vector3Default, Zero, FALSE, PlaneDefault, getLine(va, vb))
    /\ UNCHANGED objects

\* Plane::getTangentPlane(line)
GetTangentPlaneOp ==
    /\ Returns("getTangentPlane", Vector3Default, Zero, FALSE, getTangentPlane(line), LineNone)
    /\ UNCHANGED objects

\* plane.norm()
PlaneNormOp == ReturnsVector("Plane::norm", PlaneNorm(plane)) /\ UNCHANGED objects

\* plane.lineIntersection(line)
LineIntersectionOp ==
    /\ ReturnsVector("lineIntersection", lineIntersection(plane, line))
    /\ UNCHANGED objects

\* The plane getTangentPlane has just returned, intersected with the line.
TangentIntersectionOp ==
    /\ last = "getTangentPlane"
    /\ Returns("tangent.lineIntersection", lineIntersection(retP, line), Zero, FALSE,
               retP, LineNone)
    /\ UNCHANGED objects

\* tri.norm() computing its two edge vectors in place, in p[1] and p[2].
TriNormOpInPlace ==
    /\ ReturnsVector("Tri::norm", TriNorm(tri))
    /\ tri' = Tri(tri[1], VSub(tri[2], tri[1]), VSub(tri[3], tri[1]))
    /\ UNCHANGED <<va, vb, line, plane>>

\* tri.norm()
TriNormOp == ReturnsVector("Tri::norm", TriNorm(tri)) /\ UNCHANGED objects

Next ==
    \/ AddOp
    \/ ScaleOp
    \/ SubOp
    \/ DotOp
    \/ EqualsOp
    \/ CrossOp
    \/ NormOp
    \/ NormalizeOp
    \/ GetLineOp
    \/ GetTangentPlaneOp
    \/ PlaneNormOp
    \/ LineIntersectionOp
    \/ TangentIntersectionOp
    \/ TriNormOp

Spec == Init /\ [][Next]_vars

(***************************************************************************)
(* Properties                                                              *)
(***************************************************************************)
Intersected == last \in {"lineIntersection", "tangent.lineIntersection"}

\* The plane lineIntersection was called on.
Receiver == IF last = "tangent.lineIntersection" THEN retP ELSE plane

\* x + y is computed without rounding.  Operands too far apart for one
\* significand always round.
SumExact(x, y) ==
    \/ x.m = 0
    \/ y.m = 0
    \/ /\ Top(x) - y.e <= Prec + 1
       /\ Top(y) - x.e <= Prec + 1
       /\ LET s == ExactAdd(x, y) IN Canon(s[1], s[2]) = FAdd(x, y)

\* x * y is computed without rounding.
ProdExact(x, y) == BitLen(Abs(x.m * y.m)) <= Prec

\* x / y is computed without rounding.
QuotExact(x, y) ==
    LET q == FDiv(x, y) IN ProdExact(q, y) /\ Canon(q.m * y.m, q.e + y.e) = Canon(x.m, x.e)

\* No product and no sum of Dot(v1, v2) rounds.
DotExact(v1, v2) ==
    /\ ProdExact(v1.x, v2.x) /\ ProdExact(v1.y, v2.y) /\ ProdExact(v1.z, v2.z)
    /\ SumExact(FMul(v1.x, v2.x), FMul(v1.y, v2.y))
    /\ SumExact(FAdd(FMul(v1.x, v2.x), FMul(v1.y, v2.y)), FMul(v1.z, v2.z))

\* No product and no difference of Cross(v1, v2) rounds.
CrossExact(v1, v2) ==
    /\ ProdExact(v1.y, v2.z) /\ ProdExact(v1.z, v2.y)
    /\ ProdExact(v1.z, v2.x) /\ ProdExact(v1.x, v2.z)
    /\ ProdExact(v1.x, v2.y) /\ ProdExact(v1.y, v2.x)
    /\ SumExact(FMul(v1.y, v2.z), FNeg(FMul(v1.z, v2.y)))
    /\ SumExact(FMul(v1.z, v2.x), FNeg(FMul(v1.x, v2.z)))
    /\ SumExact(FMul(v1.x, v2.y), FNeg(FMul(v1.y, v2.x)))

\* C1: when dot(cross(d1, d2), line.d) is nonzero, the vector lineIntersection
\* returns lies on the plane: dot(n, r - plane.p) = 0.
C1_IntersectionOnPlane ==
    (Intersected /\ Dot(Cross(Receiver.d1, Receiver.d2), line.d) # Zero)
        => Dot(Cross(Receiver.d1, Receiver.d2), VSub(retV, Receiver.p)) = Zero

\* C2: when dot(cross(d1, d2), line.d) is zero, lineIntersection returns the
\* zero vector, whatever line.p is.
C2_ParallelReturnsZero ==
    (Intersected /\ Dot(Cross(Receiver.d1, Receiver.d2), line.d) = Zero)
        => retV = Vector3Default

\* A line parallel to the default XY-plane, anchored off it, was intersected.
C2_Witness ==
    /\ last = "lineIntersection"
    /\ plane = PlaneDefault
    /\ line = Line(IVec(1, 0, 0), IVec(0, 0, 5))
    /\ retV = Vector3Default

\* No addition and no subtraction of the numerator of lineIntersection rounds.
NumeratorExact(P, L) ==
    LET n  == PlaneNorm(P)
        px == FMul(n.x, L.p.x)
        py == FMul(n.y, L.p.y)
        pz == FMul(n.z, L.p.z)
        s1 == FAdd(px, py)
        s2 == FAdd(s1, pz)
        t1 == FSub(s2, px)
        t2 == FSub(t1, py)
    IN  /\ SumExact(px, py) /\ SumExact(s1, pz)
        /\ SumExact(s2, FNeg(px)) /\ SumExact(t1, FNeg(py)) /\ SumExact(t2, FNeg(pz))

TangentExact(L) ==
    LET P == getTangentPlane(L)
    IN  /\ L.d.z # Zero => QuotExact(FNeg(L.d.y), L.d.z)
        /\ CrossExact(P.d1, L.d)
        /\ DotExact(P.d1, L.d)
        /\ DotExact(P.d2, L.d)

SignOfNegated(x, y) == Sgn(x.m) = -Sgn(y.m)

FAbs(x) == [m |-> Abs(x.m), e |-> x.e]

\* C4: operator==(a, b) is true exactly when each coordinate of a - b lies
\* strictly inside (-0.005, 0.005): a difference of 0.005 or -0.005 on one
\* axis makes it false, a difference of 0.0025 on every axis leaves it true.
C4_BoxEquality ==
    last = "operator==" =>
        LET diff == VSub(va, vb)
            half == FMul(Literal(1, 2), epsilon)
        IN  /\ retB <=> (\A c \in {diff.x, diff.y, diff.z} : FLt(FAbs(c), epsilon))
            /\ (\E c \in {diff.x, diff.y, diff.z} : FAbs(c) = epsilon) => ~retB
            /\ diff = Vector3(half, half, half) => retB

\* Two vectors farther apart than epsilon in Euclidean length, yet inside the
\* box on every axis, compared equal.
C4_Witness ==
    /\ last = "operator=="
    /\ retB
    /\ FLt(epsilon, Norm(VSub(va, vb)))
    /\ VSub(va, vb).x # Zero /\ VSub(va, vb).y # Zero /\ VSub(va, vb).z # Zero

\* C5: cross(a, b) equals (-1) * cross(b, a), coordinate by coordinate.
C5_CrossAnticommutes ==
    last = "cross" =>
        LET back == VScale(FromInt(-1), Cross(vb, va))
        IN  retV.x = back.x /\ retV.y = back.y /\ retV.z = back.z

\* A cross product with no zero coordinate, some of whose products or
\* differences were rounded, was computed.
C5_Witness ==
    /\ last = "cross"
    /\ retV.x # Zero /\ retV.y # Zero /\ retV.z # Zero
    /\ ~CrossExact(va, vb)

\* C6: for a triangle with cross(p[1] - p[0], p[2] - p[0]) the zero vector,
\* the norm normalize tests is 0 (it divides nothing) and Tri::norm returns the
\* zero vector.
C6_DegenerateTriNormIsZero ==
    (last = "Tri::norm"
        /\ Cross(VSub(tri[2], tri[1]), VSub(tri[3], tri[1])) = Vector3Default)
        => /\ Norm(Cross(VSub(tri[2], tri[1]), VSub(tri[3], tri[1]))) = Zero
           /\ retV = Vector3Default

\* Tri::norm was called on three distinct collinear points.
C6_Witness ==
    /\ last = "Tri::norm"
    /\ tri[1] # tri[2] /\ tri[2] # tri[3] /\ tri[1] # tri[3]
    /\ Cross(VSub(tri[2], tri[1]), VSub(tri[3], tri[1])) = Vector3Default
    /\ retV = Vector3Default

\* C7: no operation changes a stored object, except normalize its receiver:
\* vb, the line, the plane and the triangle never change, and va changes only
\* in a call of normalize.
C7_OnlyNormalizeMutates ==
    [][/\ vb' = vb /\ line' = line /\ plane' = plane /\ tri' = tri
       /\ va' # va => last' = "normalize"]_vars

\* Tri::norm returned a vector that normalize had changed on the local copy.
C7_Witness ==
    /\ last = "Tri::norm"
    /\ retV # Cross(VSub(tri[2], tri[1]), VSub(tri[3], tri[1]))
    /\ retV # Vector3Default

====
